---- MODULE Spec2Model ----
(***************************************************************************)
(* Model of src/utils/xmlUtils.ts: parseOfficeMetadata and                 *)
(* parseOOXMLCustomProperties over DOM documents.                          *)
(*                                                                         *)
(* Strings whose characters the code inspects (tag names, text content)    *)
(* are sequences of one-character strings; attribute names and attribute   *)
(* values, which the code only compares for equality, are TLA+ strings.    *)
(* A DOM node is a record                                                  *)
(*   [nodeType, tagName, attributes, data, childNodes]                     *)
(* with nodeType 1 (element), 3 (text), 8 (comment) or 9 (document).       *)
(* The documents are those @xmldom/xmldom's parser returns for well-formed *)
(* input; the parser itself is a library outside the repository.           *)
(***************************************************************************)
EXTENDS Integers, Sequences, FiniteSets, TLC

VARIABLES
    pc,               \* "idle", "userDefined", "properties", "returnedMetadata", "returnedCustom"
    hostLegacyDates,  \* whether the host's Date parser accepts non-ISO digit strings
    xml,              \* the parsed Document of the running call
    metadata,         \* parseOfficeMetadata: the OfficeMetadata object
    elements,         \* the element list the running loop iterates
    idx,              \* number of elements of that list already processed
    customProperties, \* parseOfficeMetadata: the local customProperties object
    result            \* parseOOXMLCustomProperties: the result object

vars == <<pc, hostLegacyDates, xml, metadata, elements, idx, customProperties, result>>

(***************************************************************************)
(* Bounds of the input documents.                                          *)
(***************************************************************************)
MaxProps == 2
MaxChildren == 3
MaxUserDefined == 2
MaxFields == 2

(***************************************************************************)
(* Character strings.                                                      *)
(***************************************************************************)
Upper == <<"A","B","C","D","E","F","G","H","I","J","K","L","M",
           "N","O","P","Q","R","S","T","U","V","W","X","Y","Z">>
Lower == <<"a","b","c","d","e","f","g","h","i","j","k","l","m",
           "n","o","p","q","r","s","t","u","v","w","x","y","z">>
Digits == <<"0","1","2","3","4","5","6","7","8","9">>
WhiteSpace == {" ", "\t", "\n", "\r"}

IndexIn(c, alphabet) ==
    IF \E k \in 1..Len(alphabet) : alphabet[k] = c
    THEN CHOOSE k \in 1..Len(alphabet) : alphabet[k] = c
    ELSE 0

IsDigit(c) == IndexIn(c, Digits) > 0
DigitValue(c) == IndexIn(c, Digits) - 1

\* String.prototype.toLowerCase
ToLowerCase(s) ==
    [k \in 1..Len(s) |-> IF IndexIn(s[k], Upper) > 0 THEN Lower[IndexIn(s[k], Upper)] ELSE s[k]]

\* String.prototype.includes, the meaning of an unanchored literal pattern
Includes(s, sub) ==
    \E k \in 0..(Len(s) - Len(sub)) : SubSeq(s, k + 1, k + Len(sub)) = sub

\* RegExp.prototype.test for a pattern that is an alternation of literals
RegexTest(alternatives, s) == \E a \in alternatives : Includes(s, a)

RECURSIVE TrimStart(_)
TrimStart(s) == IF s # <<>> /\ Head(s) \in WhiteSpace THEN TrimStart(Tail(s)) ELSE s
RECURSIVE TrimEnd(_)
TrimEnd(s) ==
    IF s # <<>> /\ s[Len(s)] \in WhiteSpace THEN TrimEnd(SubSeq(s, 1, Len(s) - 1)) ELSE s
Trim(s) == TrimEnd(TrimStart(s))

RECURSIVE DigitsValue(_)
DigitsValue(s) ==
    IF s = <<>> THEN 0 ELSE 10 * DigitsValue(SubSeq(s, 1, Len(s) - 1)) + DigitValue(s[Len(s)])
AllDigits(s) == s # <<>> /\ \A k \in 1..Len(s) : IsDigit(s[k])

(***************************************************************************)
(* JavaScript numbers and dates.  A number is [isNaN, n].                  *)
(***************************************************************************)
NaN == [isNaN |-> TRUE, n |-> 0]
Num(v) == [isNaN |-> FALSE, n |-> v]

\* Number(text), i.e. StringToNumber, on decimal integer literals: white
\* space is trimmed, the empty string is 0, an optional sign precedes the
\* digits, and every other string is NaN.  (Fractions, exponents, radix
\* prefixes and Infinity are not represented; no modelled text uses them.)
Number(text) ==
    LET t == Trim(text) IN
    IF t = <<>> THEN Num(0)
    ELSE IF AllDigits(t) THEN Num(DigitsValue(t))
    ELSE IF Head(t) = "+" /\ AllDigits(Tail(t)) THEN Num(DigitsValue(Tail(t)))
    ELSE IF Head(t) = "-" /\ AllDigits(Tail(t)) THEN Num(0 - DigitsValue(Tail(t)))
    ELSE NaN

\* The ECMAScript date-time string formats YYYY and YYYY-MM.
IsIsoYear(t) == Len(t) = 4 /\ AllDigits(t)
IsIsoYearMonth(t) ==
    /\ Len(t) = 7
    /\ AllDigits(SubSeq(t, 1, 4))
    /\ t[5] = "-"
    /\ AllDigits(SubSeq(t, 6, 7))
    /\ DigitsValue(SubSeq(t, 6, 7)) \in 1..12
HasDigit(t) == \E k \in 1..Len(t) : IsDigit(t[k])

\* new Date(text).getTime(), in months since year 0.  A string in an ISO
\* format parses on every host; a string without any digit parses on none;
\* for any other string Date.parse falls back to host-specific heuristics,
\* which either reject it or accept it (as some host-chosen time, here 0).
DateParse(text, legacy) ==
    IF IsIsoYear(text) THEN Num(12 * DigitsValue(text))
    ELSE IF IsIsoYearMonth(text)
        THEN Num(12 * DigitsValue(SubSeq(text, 1, 4)) + DigitsValue(SubSeq(text, 6, 7)) - 1)
    ELSE IF HasDigit(text) /\ legacy THEN Num(0)
    ELSE NaN

(***************************************************************************)
(* Values stored in the output objects.                                    *)
(***************************************************************************)
StringValue(s) == [type |-> "string", str |-> s]
NumberValue(v) == [type |-> "number", num |-> v]
BooleanValue(b) == [type |-> "boolean", bool |-> b]
DateValue(t) == [type |-> "Date", time |-> t]

\* Mutant: the first value stored under a key is kept (first-write-wins).
Put_IfAbsent(obj, key, value) ==
    [k \in (DOMAIN obj) \cup {key} |-> IF k \in DOMAIN obj THEN obj[k] ELSE value]

\* obj[key] = value
Put(obj, key, value) ==
    [k \in (DOMAIN obj) \cup {key} |-> IF k = key THEN value ELSE obj[k]]
EmptyObject == [k \in {} |-> 0]

(***************************************************************************)
(* DOM.                                                                    *)
(***************************************************************************)
ELEMENT_NODE == 1
TEXT_NODE == 3
COMMENT_NODE == 8
DOCUMENT_NODE == 9

NoAttributes == [a \in {} |-> ""]
Element(tag, attrs, children) ==
    [nodeType |-> ELEMENT_NODE, tagName |-> tag, attributes |-> attrs,
     data |-> <<>>, childNodes |-> children]
Text(s) ==
    [nodeType |-> TEXT_NODE, tagName |-> <<>>, attributes |-> NoAttributes,
     data |-> s, childNodes |-> <<>>]
Comment(s) ==
    [nodeType |-> COMMENT_NODE, tagName |-> <<>>, attributes |-> NoAttributes,
     data |-> s, childNodes |-> <<>>]
Document(children) ==
    [nodeType |-> DOCUMENT_NODE, tagName |-> <<>>, attributes |-> NoAttributes,
     data |-> <<>>, childNodes |-> children]

\* An element holding the text s (no text node for the empty string).
Leaf(tag, attrs, s) == Element(tag, attrs, IF s = <<>> THEN <<>> ELSE <<Text(s)>>)

\* Node.textContent of an element or text node: the concatenated data of
\* the text nodes below it, in document order; comments are left out.
RECURSIVE TextContent(_)
RECURSIVE TextContentFrom(_, _)
TextContent(node) ==
    IF node.nodeType = TEXT_NODE THEN node.data
    ELSE TextContentFrom(node.childNodes, 1)
TextContentFrom(nodes, k) ==
    IF k > Len(nodes) THEN <<>>
    ELSE (IF nodes[k].nodeType = COMMENT_NODE THEN <<>> ELSE TextContent(nodes[k]))
         \o TextContentFrom(nodes, k + 1)

\* The element descendants of a node in document order (the node excluded).
RECURSIVE DescendantElements(_)
RECURSIVE DescendantElementsFrom(_, _)
DescendantElements(node) == DescendantElementsFrom(node.childNodes, 1)
DescendantElementsFrom(nodes, k) ==
    IF k > Len(nodes) THEN <<>>
    ELSE (IF nodes[k].nodeType = ELEMENT_NODE
          THEN <<nodes[k]>> \o DescendantElements(nodes[k])
          ELSE <<>>)
         \o DescendantElementsFrom(nodes, k + 1)

getElementsByTagName(element, tagName) ==
    SelectSeq(DescendantElements(element), LAMBDA el : el.tagName = tagName)

\* The element children of parent with the given tag name (not recursive).
getDirectChildren(parent, tagName) ==
    SelectSeq(parent.childNodes,
              LAMBDA child : child.nodeType = ELEMENT_NODE /\ child.tagName = tagName)

\* Element.getAttribute, and the test `!value` on what it returns: an
\* absent attribute (null) and an empty one are both falsy.
HasAttribute(el, name) == name \in DOMAIN el.attributes
IsFalsyAttribute(el, name) == ~HasAttribute(el, name) \/ el.attributes[name] = ""

(***************************************************************************)
(* Tag names and texts.                                                    *)
(***************************************************************************)
VT_ == <<"v","t",":">>
DC_ == <<"d","c",":">>
CP_ == <<"c","p",":">>
META_ == <<"m","e","t","a",":">>
OFFICE_ == <<"o","f","f","i","c","e",":">>
DCTERMS_ == <<"d","c","t","e","r","m","s",":">>

CP_coreProperties == CP_ \o <<"c","o","r","e","P","r","o","p","e","r","t","i","e","s">>
OFFICE_meta == OFFICE_ \o <<"m","e","t","a">>
DC_title == DC_ \o <<"t","i","t","l","e">>
DC_creator == DC_ \o <<"c","r","e","a","t","o","r">>
CP_lastModifiedBy == CP_ \o <<"l","a","s","t","M","o","d","i","f","i","e","d","B","y">>
DCTERMS_created == DCTERMS_ \o <<"c","r","e","a","t","e","d">>
DCTERMS_modified == DCTERMS_ \o <<"m","o","d","i","f","i","e","d">>
DC_description == DC_ \o <<"d","e","s","c","r","i","p","t","i","o","n">>
DC_subject == DC_ \o <<"s","u","b","j","e","c","t">>
META_creationDate == META_ \o <<"c","r","e","a","t","i","o","n","-","d","a","t","e">>
DC_date == DC_ \o <<"d","a","t","e">>
META_userDefined == META_ \o <<"u","s","e","r","-","d","e","f","i","n","e","d">>
PROPERTY == <<"p","r","o","p","e","r","t","y">>

VT_lpwstr == VT_ \o <<"l","p","w","s","t","r">>
VT_lpstr == VT_ \o <<"l","p","s","t","r">>
VT_bstr == VT_ \o <<"b","s","t","r">>
VT_bool == VT_ \o <<"b","o","o","l">>
VT_int == VT_ \o <<"i","n","t">>
VT_uint == VT_ \o <<"u","i","n","t">>
VT_r4 == VT_ \o <<"r","4">>
VT_r8 == VT_ \o <<"r","8">>
VT_decimal == VT_ \o <<"d","e","c","i","m","a","l">>
VT_filetime == VT_ \o <<"f","i","l","e","t","i","m","e">>
VT_date == VT_ \o <<"d","a","t","e">>
VT_i(d) == VT_ \o <<"i", d>>
VT_ui(d) == VT_ \o <<"u","i", d>>

\* The string "true"
TRUE_ == <<"t","r","u","e">>

\* /vt:lpwstr|vt:lpstr|vt:bstr/
RE_STRING == {VT_lpwstr, VT_lpstr, VT_bstr}
\* /vt:bool/
RE_BOOL == {VT_bool}
\* /vt:(i[1248]|ui[1248]|int|uint|r4|r8|decimal)/
RE_NUMBER ==
    {VT_i(d) : d \in {"1","2","4","8"}} \cup {VT_ui(d) : d \in {"1","2","4","8"}}
    \cup {VT_int, VT_uint, VT_r4, VT_r8, VT_decimal}
\* /vt:filetime|vt:date/
RE_DATE == {VT_filetime, VT_date}

(***************************************************************************)
(* parseOfficeMetadata.                                                    *)
(***************************************************************************)
\* <<field of OfficeMetadata, tag name, whether the text goes through new Date>>
CoreFields ==
    << <<"title", DC_title, FALSE>>,
       <<"author", DC_creator, FALSE>>,
       <<"lastModifiedBy", CP_lastModifiedBy, FALSE>>,
       <<"created", DCTERMS_created, TRUE>>,
       <<"modified", DCTERMS_modified, TRUE>>,
       <<"description", DC_description, FALSE>>,
       <<"subject", DC_subject, FALSE>> >>
OdfFields ==
    << <<"title", DC_title, FALSE>>,
       <<"author", DC_creator, FALSE>>,
       <<"description", DC_description, FALSE>>,
       <<"subject", DC_subject, FALSE>>,
       <<"created", META_creationDate, TRUE>>,
       <<"modified", DC_date, TRUE>> >>

\* Mutant: the marker is looked for among the document's children only.
CoreMarker_TopLevel(doc) == getDirectChildren(doc, CP_coreProperties)
\* Mutant: any element whose tag name contains "meta" counts as the marker.
MetaMarker_Substring(doc) ==
    SelectSeq(DescendantElements(doc), LAMBDA el : Includes(el.tagName, <<"m","e","t","a">>))

\* getElementsByTagName(xml, "cp:coreProperties") and
\* getElementsByTagName(xml, "office:meta")
CoreMarker(doc) == getElementsByTagName(doc, CP_coreProperties)
MetaMarker(doc) == getElementsByTagName(doc, OFFICE_meta)

\* Mutant: the last matching element is taken instead of the first.
ExtractField_Last(md, container, field, legacy) ==
    LET found == getElementsByTagName(container, field[2]) IN
    IF Len(found) > 0 /\ TextContent(found[Len(found)]) # <<>>
    THEN Put(md, field[1],
             IF field[3] THEN DateValue(DateParse(TextContent(found[Len(found)]), legacy))
             ELSE TextContent(found[Len(found)]))
    ELSE md

\* const e = getElementsByTagName(container, tag)[0];
\* if (e && e.textContent) md.field = e.textContent  (or new Date(e.textContent))
ExtractField(md, container, field, legacy) ==
    LET found == getElementsByTagName(container, field[2]) IN
    IF Len(found) > 0 /\ TextContent(found[1]) # <<>>
    THEN Put(md, field[1],
             IF field[3] THEN DateValue(DateParse(TextContent(found[1]), legacy))
             ELSE TextContent(found[1]))
    ELSE md

RECURSIVE ExtractFields(_, _, _, _, _)
ExtractFields(md, container, fields, k, legacy) ==
    IF k > Len(fields) THEN md
    ELSE ExtractFields(ExtractField(md, container, fields[k], legacy),
                       container, fields, k + 1, legacy)

\* Mutant: an unparseable date is dropped like an unparseable number.
DecodeUserDefined_DropBadDate(props, el, legacy) ==
    IF IsFalsyAttribute(el, "meta:name") \/ TextContent(el) = <<>> THEN props
    ELSE
        LET name == el.attributes["meta:name"]
            valueType == IF IsFalsyAttribute(el, "meta:value-type") THEN "string"
                         ELSE el.attributes["meta:value-type"]
            raw == TextContent(el)
        IN  IF valueType = "boolean"
              THEN Put(props, name, BooleanValue(ToLowerCase(raw) = TRUE_))
            ELSE IF valueType = "float"
              THEN IF ~Number(raw).isNaN
                   THEN Put(props, name, NumberValue(Number(raw).n)) ELSE props
            ELSE IF valueType = "date" \/ valueType = "time"
              THEN IF ~DateParse(raw, legacy).isNaN
                   THEN Put(props, name, DateValue(DateParse(raw, legacy)))
                   ELSE props
            ELSE Put(props, name, StringValue(raw))

\* Mutant: the number is stored without the isNaN guard (NaN shown as 0).
DecodeUserDefined_NoNaNGuard(props, el, legacy) ==
    IF IsFalsyAttribute(el, "meta:name") \/ TextContent(el) = <<>> THEN props
    ELSE
        LET name == el.attributes["meta:name"]
            valueType == IF IsFalsyAttribute(el, "meta:value-type") THEN "string"
                         ELSE el.attributes["meta:value-type"]
            raw == TextContent(el)
        IN  IF valueType = "boolean"
              THEN Put(props, name, BooleanValue(ToLowerCase(raw) = TRUE_))
            ELSE IF valueType = "float"
              THEN Put(props, name, NumberValue(Number(raw).n))
            ELSE IF valueType = "date" \/ valueType = "time"
              THEN IF ~DateParse(raw, legacy).isNaN
                   THEN Put(props, name, DateValue(DateParse(raw, legacy)))
                   ELSE Put(props, name, StringValue(raw))
            ELSE Put(props, name, StringValue(raw))

\* One iteration of `for (const el of userDefined)`.
DecodeUserDefined(props, el, legacy) ==
    IF IsFalsyAttribute(el, "meta:name") \/ TextContent(el) = <<>> THEN props
    ELSE
        LET name == el.attributes["meta:name"]
            valueType == IF IsFalsyAttribute(el, "meta:value-type") THEN "string"
                         ELSE el.attributes["meta:value-type"]
            raw == TextContent(el)
        IN  IF valueType = "boolean"
              THEN Put(props, name, BooleanValue(ToLowerCase(raw) = TRUE_))
            ELSE IF valueType = "float"
              THEN IF ~Number(raw).isNaN
                   THEN Put(props, name, NumberValue(Number(raw).n)) ELSE props
            ELSE IF valueType = "date" \/ valueType = "time"
              THEN IF ~DateParse(raw, legacy).isNaN
                   THEN Put(props, name, DateValue(DateParse(raw, legacy)))
                   ELSE Put(props, name, StringValue(raw))
            ELSE Put(props, name, StringValue(raw))

\* Mutant: the map is attached even when it is empty.
AttachCustomProperties_Always(md, props) == Put(md, "customProperties", props)

\* if (Object.keys(customProperties).length > 0) metadata.customProperties = ...
AttachCustomProperties(md, props) ==
    IF DOMAIN props # {} THEN Put(md, "customProperties", props) ELSE md

(***************************************************************************)
(* parseOOXMLCustomProperties.                                             *)
(***************************************************************************)
\* Mutant: the number is stored without the isNaN guard (NaN shown as 0).
DecodeValue_NoNaNGuard(res, name, tag, text, legacy) ==
    IF RegexTest(RE_STRING, tag) THEN Put(res, name, StringValue(text))
    ELSE IF RegexTest(RE_BOOL, tag)
      THEN Put(res, name, BooleanValue(ToLowerCase(text) = TRUE_))
    ELSE IF RegexTest(RE_NUMBER, tag)
      THEN Put(res, name, NumberValue(Number(text).n))
    ELSE IF RegexTest(RE_DATE, tag)
      THEN IF ~DateParse(text, legacy).isNaN
           THEN Put(res, name, DateValue(DateParse(text, legacy)))
           ELSE Put(res, name, StringValue(text))
    ELSE IF text # <<>> THEN Put(res, name, StringValue(text))
    ELSE res

\* Mutant: the text is compared with "true" without lowering its case.
DecodeValue_CaseSensitive(res, name, tag, text, legacy) ==
    IF RegexTest(RE_STRING, tag) THEN Put(res, name, StringValue(text))
    ELSE IF RegexTest(RE_BOOL, tag)
      THEN Put(res, name, BooleanValue(text = TRUE_))
    ELSE IF RegexTest(RE_NUMBER, tag)
      THEN IF ~Number(text).isNaN THEN Put(res, name, NumberValue(Number(text).n)) ELSE res
    ELSE IF RegexTest(RE_DATE, tag)
      THEN IF ~DateParse(text, legacy).isNaN
           THEN Put(res, name, DateValue(DateParse(text, legacy)))
           ELSE Put(res, name, StringValue(text))
    ELSE IF text # <<>> THEN Put(res, name, StringValue(text))
    ELSE res

\* The if-chain on the value element's tag and text.
DecodeValue(res, name, tag, text, legacy) ==
    IF RegexTest(RE_STRING, tag) THEN Put(res, name, StringValue(text))
    ELSE IF RegexTest(RE_BOOL, tag)
      THEN Put(res, name, BooleanValue(ToLowerCase(text) = TRUE_))
    ELSE IF RegexTest(RE_NUMBER, tag)
      THEN IF ~Number(text).isNaN THEN Put(res, name, NumberValue(Number(text).n)) ELSE res
    ELSE IF RegexTest(RE_DATE, tag)
      THEN IF ~DateParse(text, legacy).isNaN
           THEN Put(res, name, DateValue(DateParse(text, legacy)))
           ELSE Put(res, name, StringValue(text))
    ELSE IF text # <<>> THEN Put(res, name, StringValue(text))
    ELSE res

\* Mutant: without the break the last element child decides.
FirstElementChild_Last(prop) ==
    LET elementAt == {k \in 1..Len(prop.childNodes) :
                         prop.childNodes[k].nodeType = ELEMENT_NODE}
    IN  IF elementAt = {} THEN 0
        ELSE CHOOSE k \in elementAt : \A j \in elementAt : j <= k

\* The index of the child the inner loop stops at: the first element node
\* of prop.childNodes, 0 if there is none.
FirstElementChild(prop) ==
    LET elementAt == {k \in 1..Len(prop.childNodes) :
                         prop.childNodes[k].nodeType = ELEMENT_NODE}
    IN  IF elementAt = {} THEN 0
        ELSE CHOOSE k \in elementAt : \A j \in elementAt : k <= j

\* One iteration of `for (const prop of properties)`.
DecodeProperty(res, prop, legacy) ==
    IF IsFalsyAttribute(prop, "name") THEN res
    ELSE IF FirstElementChild(prop) = 0 THEN res
    ELSE LET el == prop.childNodes[FirstElementChild(prop)] IN
         DecodeValue(res, prop.attributes["name"], el.tagName, TextContent(el), legacy)

(***************************************************************************)
(* Input documents.                                                        *)
(***************************************************************************)
SeqsUpTo(S, n) == UNION {[1..k -> S] : k \in 0..n}

T_EMPTY == <<>>
T_TRUE == <<"T","r","u","e">>
T_NUM == <<"1","2">>
T_DATE == <<"2","0","2","0","-","0","1">>
TextPool == {T_EMPTY, T_TRUE, T_NUM, T_DATE}
NonEmptyTexts == TextPool \ {T_EMPTY}

Named(n) == [a \in {"name"} |-> n]
PropertyNames == {"a", "b"}
VT_vector == VT_ \o <<"v","e","c","t","o","r">>
PROPERTIES == <<"P","r","o","p","e","r","t","i","e","s">>

\* Documents of up to MaxProps properties, each with at most one child:
\* every decoding outcome under the name "a", some under "b", and
\* properties without a usable name.
Value(tag, t) == Leaf(tag, NoAttributes, t)
PairTags == {VT_lpwstr, VT_bool, VT_r8, VT_filetime, VT_vector}
PairValuesA == {Value(tag, t) : tag \in PairTags, t \in TextPool}
PairValuesB == {Value(VT_lpwstr, T_TRUE), Value(VT_r8, T_TRUE)}
PairProperties ==
    {Element(PROPERTY, Named("a"), kids) : kids \in {<<>>} \cup {<<v>> : v \in PairValuesA}}
    \cup {Element(PROPERTY, Named("b"), kids) : kids \in {<<>>} \cup {<<v>> : v \in PairValuesB}}
    \cup {Element(PROPERTY, NoAttributes, <<Value(VT_lpwstr, T_TRUE)>>),
          Element(PROPERTY, Named(""), <<Value(VT_lpwstr, T_TRUE)>>)}
PairDoc(props) == Document(<<Element(PROPERTIES, NoAttributes, props)>>)

\* Documents of one property whose value element has any tag of the vt:
\* vocabulary, or a tag outside it.
AllVtTags ==
    RE_STRING \cup RE_BOOL \cup RE_NUMBER \cup RE_DATE
    \cup {VT_vector, VT_i("3"), VT_ \o <<"n","u","l","l">>, <<"b","o","o","l">>}
TagDocs ==
    {Document(<<Element(PROPERTIES, NoAttributes,
                        <<Element(PROPERTY, Named("a"), <<Leaf(tag, NoAttributes, t)>>)>>)>>) :
        tag \in AllVtTags, t \in TextPool}

\* Documents of one property with up to MaxChildren child nodes: text,
\* comments, value elements, and a nested property element.
ChildNodes ==
    {Text(<<"\n">>), Comment(T_NUM),
     Element(PROPERTY, Named("b"), <<Leaf(VT_lpwstr, NoAttributes, T_DATE)>>)}
    \cup {Leaf(tag, NoAttributes, t) :
            tag \in {VT_lpwstr, VT_r8, VT_vector}, t \in {T_EMPTY, T_TRUE, T_NUM}}
ChildDoc(kids) ==
    Document(<<Element(PROPERTIES, NoAttributes, <<Element(PROPERTY, Named("a"), kids)>>)>>)

\* Metadata documents: one container element holding up to MaxFields
\* field elements of either vocabulary.
OFFICE_documentMeta == OFFICE_ \o <<"d","o","c","u","m","e","n","t","-","m","e","t","a">>
OFFICE_body == OFFICE_ \o <<"b","o","d","y">>
FieldTags ==
    {DC_title, DC_creator, CP_lastModifiedBy, DCTERMS_created, DCTERMS_modified,
     DC_description, DC_subject, META_creationDate, DC_date}
FieldElements ==
    {Leaf(tag, NoAttributes, t) : tag \in FieldTags, t \in {T_EMPTY, T_TRUE, T_DATE}}
    \cup {Leaf(DCTERMS_created, NoAttributes, T_NUM)}
FieldContainers == {CP_coreProperties, OFFICE_meta, OFFICE_body}
FieldDoc(container, fields) ==
    IF container = CP_coreProperties
    THEN Document(<<Element(CP_coreProperties, NoAttributes, fields)>>)
    ELSE Document(<<Element(OFFICE_documentMeta, NoAttributes,
                            <<Element(container, NoAttributes, fields)>>)>>)

\* Core-properties documents with title elements outside the marker,
\* directly inside it, and deeper inside it; a title may hold another one.
TitleElements ==
    {Leaf(DC_title, NoAttributes, t) : t \in {T_EMPTY, T_TRUE, T_NUM}}
    \cup {Element(DC_title, NoAttributes, <<Text(T_NUM), Leaf(DC_title, NoAttributes, T_TRUE)>>)}
TitleDoc(before, inside) ==
    Document(<<Element(OFFICE_documentMeta, NoAttributes,
                       before \o <<Element(CP_coreProperties, NoAttributes,
                                           <<Element(OFFICE_body, NoAttributes, inside)>>)>>)>>)

\* ODF documents with up to MaxUserDefined meta:user-defined elements.
UserDefinedAttributes(n, v) ==
    [a \in {"meta:name", "meta:value-type"} |-> IF a = "meta:name" THEN n ELSE v]
UserDefined(n, v, t) == Leaf(META_userDefined, UserDefinedAttributes(n, v), t)
UserDefinedElements ==
    {UserDefined("a", v, t) : v \in {"boolean", "float", "date"}, t \in NonEmptyTexts}
    \cup {Leaf(META_userDefined, [a \in {"meta:name"} |-> "a"], t) : t \in NonEmptyTexts}
    \cup {UserDefined("a", "time", T_TRUE), UserDefined("a", "string", T_NUM),
          UserDefined("a", "", T_TRUE), UserDefined("a", "float", T_EMPTY),
          UserDefined("b", "float", T_TRUE), UserDefined("b", "boolean", T_NUM),
          UserDefined("", "string", T_TRUE),
          Leaf(META_userDefined, [a \in {"meta:name"} |-> "b"], T_TRUE),
          Leaf(META_userDefined, NoAttributes, T_TRUE)}
UserDefinedDoc(uds) ==
    Document(<<Element(OFFICE_documentMeta, NoAttributes,
                       <<Element(OFFICE_meta, NoAttributes, uds)>>)>>)

\* Documents holding both markers, in either order, and a user-defined
\* element outside the meta marker.
BothDocs ==
    LET core(ts) == Element(CP_coreProperties, NoAttributes, ts)
        meta(us) == Element(OFFICE_meta, NoAttributes,
                            <<Leaf(DC_subject, NoAttributes, T_TRUE)>> \o us)
        ud == {Leaf(META_userDefined, attrs, T_NUM) :
                  attrs \in {[a \in {"meta:name"} |-> "a"],
                             [a \in {"meta:name", "meta:value-type"} |->
                                 IF a = "meta:name" THEN "a" ELSE "float"]}}
    IN  {Document(<<Element(OFFICE_documentMeta, NoAttributes, kids)>>) :
            kids \in UNION {{<<core(ts), meta(us)>>, <<meta(us), core(ts)>>,
                             <<meta(<<core(ts)>> \o us)>>, <<core(ts \o <<meta(us)>>)>>,
                             <<Element(OFFICE_body, NoAttributes, us)>>,
                             <<Element(OFFICE_body, NoAttributes, us), meta(<<>>)>>} :
                               ts \in SeqsUpTo(TitleElements, 1), us \in SeqsUpTo(ud, 1)}}


(***************************************************************************)
(* The state machine: calls of the two exported functions on documents.    *)
(***************************************************************************)
NoDocument == Document(<<>>)

Init ==
    /\ pc = "idle"
    /\ hostLegacyDates \in BOOLEAN
    /\ xml = NoDocument
    /\ metadata = EmptyObject
    /\ elements = <<>>
    /\ idx = 0
    /\ customProperties = EmptyObject
    /\ result = EmptyObject

\* parseOfficeMetadata up to the loop over the user-defined elements.
parseOfficeMetadata(doc) ==
    /\ pc = "idle"
    /\ xml' = doc
    /\ idx' = 0
    /\ customProperties' = EmptyObject
    /\ LET core == CoreMarker(doc)
           meta == MetaMarker(doc)
       IN  IF Len(core) > 0
           THEN /\ metadata' = ExtractFields(EmptyObject, core[1], CoreFields, 1, hostLegacyDates)
                /\ elements' = <<>>
                /\ pc' = "returnedMetadata"
           ELSE IF Len(meta) > 0
           THEN /\ metadata' = ExtractFields(EmptyObject, meta[1], OdfFields, 1, hostLegacyDates)
                /\ elements' = getElementsByTagName(meta[1], META_userDefined)
                /\ pc' = IF Len(elements') > 0 THEN "userDefined" ELSE "returnedMetadata"
           ELSE /\ metadata' = EmptyObject
                /\ elements' = <<>>
                /\ pc' = "returnedMetadata"
    /\ UNCHANGED <<hostLegacyDates, result>>

\* One iteration of the loop over userDefined; after the last one the map
\* is attached if it has a key, and the function returns.
UserDefinedStep ==
    /\ pc = "userDefined"
    /\ idx < Len(elements)
    /\ customProperties' = DecodeUserDefined(customProperties, elements[idx + 1], hostLegacyDates)
    /\ idx' = idx + 1
    /\ IF idx' = Len(elements)
       THEN /\ metadata' = AttachCustomProperties(metadata, customProperties')
            /\ pc' = "returnedMetadata"
       ELSE UNCHANGED <<metadata, pc>>
    /\ UNCHANGED <<hostLegacyDates, xml, elements, result>>

\* parseOOXMLCustomProperties up to the loop over the property elements.
parseOOXMLCustomProperties(doc) ==
    /\ pc = "idle"
    /\ xml' = doc
    /\ idx' = 0
    /\ result' = EmptyObject
    /\ elements' = getElementsByTagName(doc, PROPERTY)
    /\ pc' = IF Len(elements') > 0 THEN "properties" ELSE "returnedCustom"
    /\ UNCHANGED <<hostLegacyDates, metadata, customProperties>>

\* One iteration of the loop over properties; the function returns after
\* the last one.
PropertyStep ==
    /\ pc = "properties"
    /\ idx < Len(elements)
    /\ result' = DecodeProperty(result, elements[idx + 1], hostLegacyDates)
    /\ idx' = idx + 1
    /\ pc' = IF idx' = Len(elements) THEN "returnedCustom" ELSE pc
    /\ UNCHANGED <<hostLegacyDates, xml, elements, metadata, customProperties>>

\* The caller drops the returned value; the next call starts afresh.
Discard ==
    /\ pc \in {"returnedMetadata", "returnedCustom"}
    /\ pc' = "idle"
    /\ xml' = NoDocument
    /\ metadata' = EmptyObject
    /\ elements' = <<>>
    /\ idx' = 0
    /\ customProperties' = EmptyObject
    /\ result' = EmptyObject
    /\ UNCHANGED hostLegacyDates

\* The calls, by family of input document.
CallMetadata ==
    /\ pc = "idle"
    /\ \/ \E container \in FieldContainers, k \in 0..MaxFields : \E fields \in [1..k -> FieldElements] :
             parseOfficeMetadata(FieldDoc(container, fields))
       \/ \E j \in 0..1, k \in 0..MaxFields :
             \E before \in [1..j -> TitleElements], inside \in [1..k -> TitleElements] :
               parseOfficeMetadata(TitleDoc(before, inside))
       \/ \E k \in 0..MaxUserDefined : \E uds \in [1..k -> UserDefinedElements] :
             parseOfficeMetadata(UserDefinedDoc(uds))
       \/ \E doc \in BothDocs : parseOfficeMetadata(doc)

CallCustom ==
    /\ pc = "idle"
    /\ \/ \E k \in 0..MaxProps : \E props \in [1..k -> PairProperties] :
             parseOOXMLCustomProperties(PairDoc(props))
       \/ \E doc \in TagDocs : parseOOXMLCustomProperties(doc)
       \/ \E k \in 0..MaxChildren : \E kids \in [1..k -> ChildNodes] :
             parseOOXMLCustomProperties(ChildDoc(kids))

Next == CallMetadata \/ UserDefinedStep \/ CallCustom \/ PropertyStep \/ Discard

Spec == Init /\ [][Next]_vars

(***************************************************************************)
(* Vocabulary of the properties: what a document contains, read off the    *)
(* tree without the decoders.                                              *)
(***************************************************************************)
ElementsOf(doc) == DescendantElements(doc)
Tagged(doc, tag) == SelectSeq(ElementsOf(doc), LAMBDA el : el.tagName = tag)
HasCoreMarker(doc) == Len(Tagged(doc, CP_coreProperties)) > 0
HasMetaMarker(doc) == Len(Tagged(doc, OFFICE_meta)) > 0
FirstCoreMarker(doc) == Tagged(doc, CP_coreProperties)[1]
FirstMetaMarker(doc) == Tagged(doc, OFFICE_meta)[1]
Range(seq) == {seq[k] : k \in 1..Len(seq)}
Max(S) == CHOOSE k \in S : \A j \in S : j <= k

MetadataFields ==
    {"title", "author", "lastModifiedBy", "description", "subject",
     "created", "modified", "customProperties"}

\* The text equals "true" when case is ignored.
IsTrueIgnoringCase(t) ==
    /\ Len(t) = 4
    /\ t[1] \in {"t", "T"} /\ t[2] \in {"r", "R"} /\ t[3] \in {"u", "U"} /\ t[4] \in {"e", "E"}

\* A meta:user-defined element: its name, type and whether it has both a
\* name and text.
UdNamed(el) == HasAttribute(el, "meta:name") /\ el.attributes["meta:name"] # ""
UdName(el) == el.attributes["meta:name"]
UdType(el) ==
    IF HasAttribute(el, "meta:value-type") /\ el.attributes["meta:value-type"] # ""
    THEN el.attributes["meta:value-type"] ELSE "string"
UdUsable(el) == UdNamed(el) /\ TextContent(el) # <<>>
UdNumericFailure(el) ==
    UdUsable(el) /\ UdType(el) = "float" /\ Number(TextContent(el)).isNaN
UdDateFailure(el) ==
    /\ UdUsable(el)
    /\ UdType(el) \in {"date", "time"}
    /\ DateParse(TextContent(el), hostLegacyDates).isNaN
\* The decoding table for ODF value types.
UdInserts(el) == UdUsable(el) /\ ~UdNumericFailure(el)
UdExpected(el) ==
    LET raw == TextContent(el) IN
    CASE UdType(el) = "boolean" -> BooleanValue(IsTrueIgnoringCase(raw))
      [] UdType(el) = "float" -> NumberValue(Number(raw).n)
      [] UdType(el) \in {"date", "time"} /\ ~UdDateFailure(el) ->
            DateValue(DateParse(raw, hostLegacyDates))
      [] OTHER -> StringValue(raw)

\* A property element: its name, its value child (the first element
\* child) and the family of the value child's tag.
PropNamed(p) == HasAttribute(p, "name") /\ p.attributes["name"] # ""
PropName(p) == p.attributes["name"]
ElementChildren(p) == SelectSeq(p.childNodes, LAMBDA n : n.nodeType = ELEMENT_NODE)
HasValueChild(p) == Len(ElementChildren(p)) > 0
ValueChild(p) == ElementChildren(p)[1]
TagFamily(tag) ==
    CASE tag \in RE_STRING -> "string"
      [] tag \in RE_BOOL -> "boolean"
      [] tag \in RE_NUMBER -> "number"
      [] tag \in RE_DATE -> "timestamp"
      [] OTHER -> "other"
ValueFamily(p) == TagFamily(ValueChild(p).tagName)
ValueText(p) == TextContent(ValueChild(p))
PropTyped(p) == PropNamed(p) /\ HasValueChild(p)
PropNumericFailure(p) ==
    PropTyped(p) /\ ValueFamily(p) = "number" /\ Number(ValueText(p)).isNaN
PropDateFailure(p) ==
    /\ PropTyped(p)
    /\ ValueFamily(p) = "timestamp"
    /\ DateParse(ValueText(p), hostLegacyDates).isNaN
\* The decoding table for the vt: vocabulary.
PropInserts(p) ==
    /\ PropTyped(p)
    /\ ~PropNumericFailure(p)
    /\ ~(ValueFamily(p) = "other" /\ ValueText(p) = <<>>)
PropExpected(p) ==
    CASE ValueFamily(p) = "boolean" -> BooleanValue(IsTrueIgnoringCase(ValueText(p)))
      [] ValueFamily(p) = "number" -> NumberValue(Number(ValueText(p)).n)
      [] ValueFamily(p) = "timestamp" /\ ~PropDateFailure(p) ->
            DateValue(DateParse(ValueText(p), hostLegacyDates))
      [] OTHER -> StringValue(ValueText(p))

\* The elements a loop has processed so far, and the map it builds; once
\* parseOfficeMetadata has returned, the map is the record's customProperties.
InCustom == pc \in {"properties", "returnedCustom"}
InOdf == pc = "userDefined" \/ (pc = "returnedMetadata" /\ Len(elements) > 0)
Processed == 1..idx
OdfMap ==
    IF pc = "returnedMetadata"
    THEN IF "customProperties" \in DOMAIN metadata THEN metadata.customProperties ELSE EmptyObject
    ELSE customProperties
SameProp(j, k) ==
    PropNamed(elements[j]) /\ PropNamed(elements[k])
    /\ PropName(elements[j]) = PropName(elements[k])
SameUd(j, k) ==
    UdNamed(elements[j]) /\ UdNamed(elements[k])
    /\ UdName(elements[j]) = UdName(elements[k])
PropLaterStores(k) == \E j \in Processed : j > k /\ SameProp(j, k) /\ PropInserts(elements[j])
PropOtherStores(k) == \E j \in Processed : j # k /\ SameProp(j, k) /\ PropInserts(elements[j])
UdLaterStores(k) == \E j \in Processed : j > k /\ SameUd(j, k) /\ UdInserts(elements[j])
UdOtherStores(k) == \E j \in Processed : j # k /\ SameUd(j, k) /\ UdInserts(elements[j])

(***************************************************************************)
(* C1.  When the document holds a cp:coreProperties element, the record    *)
(* comes from the core-properties path alone: the user-defined loop is not *)
(* run, customProperties is absent, and every field of the record is a     *)
(* core-properties field whose element lies below the marker.              *)
(***************************************************************************)
C1_CoreOnly ==
    (pc = "returnedMetadata" /\ HasCoreMarker(xml)) =>
        /\ "customProperties" \notin DOMAIN metadata
        /\ idx = 0 /\ elements = <<>> /\ customProperties = EmptyObject
        /\ \A f \in DOMAIN metadata :
              \E k \in 1..Len(CoreFields) :
                  /\ CoreFields[k][1] = f
                  /\ Len(Tagged(FirstCoreMarker(xml), CoreFields[k][2])) > 0

C1_Witness ==
    /\ pc = "returnedMetadata"
    /\ HasCoreMarker(xml)
    /\ HasMetaMarker(xml)
    /\ \E ud \in Range(Tagged(FirstMetaMarker(xml), META_userDefined)) : UdInserts(ud)
    /\ "customProperties" \notin DOMAIN metadata

(***************************************************************************)
(* C2.  A document with neither a cp:coreProperties nor an office:meta     *)
(* element yields a record without any field.                              *)
(***************************************************************************)
C2_NoMarkerEmpty ==
    (pc = "returnedMetadata" /\ ~HasCoreMarker(xml) /\ ~HasMetaMarker(xml)) =>
        /\ \A f \in MetadataFields : f \notin DOMAIN metadata
        /\ DOMAIN metadata = {}

C2_Witness ==
    /\ pc = "returnedMetadata"
    /\ ~HasCoreMarker(xml) /\ ~HasMetaMarker(xml)
    /\ \E el \in Range(ElementsOf(xml)) :
          el.tagName \in {DC_title, META_userDefined} /\ TextContent(el) # <<>>
    /\ DOMAIN metadata = {}

(***************************************************************************)
(* C3, as stated.  In a core-properties document, every dc:title element   *)
(* of the document with non-empty text T makes the record's title T.       *)
(***************************************************************************)
C3_AnyTitle ==
    (pc = "returnedMetadata" /\ HasCoreMarker(xml)) =>
        \A el \in Range(Tagged(xml, DC_title)) :
            TextContent(el) # <<>> =>
                "title" \in DOMAIN metadata /\ metadata.title = TextContent(el)

(***************************************************************************)
(* C3, amended.  In a core-properties document the title is decided by     *)
(* the first dc:title element below the first cp:coreProperties element:   *)
(* if its text T is non-empty the record's title is T; if it is empty, or  *)
(* there is no such element, the record has no title.                      *)
(***************************************************************************)
C3_FirstTitle ==
    (pc = "returnedMetadata" /\ HasCoreMarker(xml)) =>
        LET titles == Tagged(FirstCoreMarker(xml), DC_title) IN
        IF Len(titles) > 0 /\ TextContent(titles[1]) # <<>>
        THEN "title" \in DOMAIN metadata /\ metadata.title = TextContent(titles[1])
        ELSE "title" \notin DOMAIN metadata

C3_Witness ==
    /\ pc = "returnedMetadata"
    /\ HasCoreMarker(xml)
    /\ LET titles == Tagged(FirstCoreMarker(xml), DC_title) IN
        /\ Len(titles) > 1
        /\ TextContent(titles[1]) # <<>>
        /\ TextContent(titles[2]) # <<>>
        /\ TextContent(titles[2]) # TextContent(titles[1])
        /\ "title" \in DOMAIN metadata
        /\ metadata.title = TextContent(titles[1])

(***************************************************************************)
(* C4, as stated.  Of two property elements with the same name and         *)
(* different value children, the later one's value is what the returned    *)
(* map holds under the name, whatever the tags and texts are.              *)
(***************************************************************************)
C4_LaterAlwaysWins ==
    pc = "returnedCustom" =>
        \A i, j \in Processed :
            ( /\ i < j
              /\ SameProp(i, j)
              /\ HasValueChild(elements[i]) /\ HasValueChild(elements[j])
              /\ ValueChild(elements[i]) # ValueChild(elements[j])
              /\ ~\E k \in Processed : k > j /\ SameProp(k, j) )
            => /\ PropName(elements[j]) \in DOMAIN result
               /\ PropInserts(elements[j])
               /\ result[PropName(elements[j])] = PropExpected(elements[j])

(***************************************************************************)
(* C4, amended.  The returned map holds under a name the value of the      *)
(* last property element of that name whose value child decodes to a       *)
(* value: the later of two wins when it decodes; when it does not (a       *)
(* numeric tag with non-numeric text, an unrecognised tag with empty       *)
(* text, no element child), the earlier element's entry is kept; a name    *)
(* none of whose elements decodes is absent.                               *)
(***************************************************************************)
C4_LastStoredWins ==
    pc = "returnedCustom" =>
        /\ \A k \in Processed :
              PropNamed(elements[k]) =>
                  LET storing == {j \in Processed : SameProp(j, k) /\ PropInserts(elements[j])}
                      name == PropName(elements[k])
                  IN  IF storing = {} THEN name \notin DOMAIN result
                      ELSE /\ name \in DOMAIN result
                           /\ result[name] = PropExpected(elements[Max(storing)])
        /\ \A name \in DOMAIN result :
              \E k \in Processed : PropNamed(elements[k]) /\ PropName(elements[k]) = name

C4_Witness ==
    /\ pc = "returnedCustom"
    /\ \E i, j \in Processed :
          /\ i < j
          /\ SameProp(i, j)
          /\ PropInserts(elements[i]) /\ PropInserts(elements[j])
          /\ PropExpected(elements[i]) # PropExpected(elements[j])
          /\ result[PropName(elements[j])] = PropExpected(elements[j])

(***************************************************************************)
(* C5, as stated.  A property whose value has a numeric type and text      *)
(* that is not a number leaves its name absent from the output map.        *)
(***************************************************************************)
C5_NumericFailureAbsent ==
    /\ pc = "returnedCustom" =>
          \A k \in Processed :
              PropNumericFailure(elements[k]) => PropName(elements[k]) \notin DOMAIN result
    /\ (pc = "returnedMetadata" /\ InOdf) =>
          \A k \in Processed :
              UdNumericFailure(elements[k]) => UdName(elements[k]) \notin DOMAIN OdfMap

(***************************************************************************)
(* C5, amended.  Such a property stores nothing: its name is absent from   *)
(* the map unless another element of the same name stored a value, and     *)
(* then the map holds that other element's value, never a zero or default  *)
(* standing for the failed one.                                            *)
(***************************************************************************)
C5_NumericFailureStoresNothing ==
    /\ InCustom =>
          \A k \in Processed :
              (PropNumericFailure(elements[k]) /\ PropName(elements[k]) \in DOMAIN result) =>
                  \E j \in Processed :
                      /\ j # k /\ SameProp(j, k) /\ PropInserts(elements[j])
                      /\ result[PropName(elements[k])] = PropExpected(elements[j])
    /\ InOdf =>
          \A k \in Processed :
              (UdNumericFailure(elements[k]) /\ UdName(elements[k]) \in DOMAIN OdfMap) =>
                  \E j \in Processed :
                      /\ j # k /\ SameUd(j, k) /\ UdInserts(elements[j])
                      /\ OdfMap[UdName(elements[k])] = UdExpected(elements[j])

C5_Witness ==
    /\ pc = "returnedCustom"
    /\ DOMAIN result # {}
    /\ \E k \in Processed :
          /\ PropNumericFailure(elements[k])
          /\ ValueChild(elements[k]).tagName = VT_r8
          /\ PropName(elements[k]) \notin DOMAIN result

(***************************************************************************)
(* C6, as stated.  A property whose value has a timestamp type and text    *)
(* that is not a date is in the output map under its name as the Text      *)
(* value of the raw text.                                                  *)
(***************************************************************************)
C6_DateFailureIsText ==
    /\ pc = "returnedCustom" =>
          \A k \in Processed :
              PropDateFailure(elements[k]) =>
                  /\ PropName(elements[k]) \in DOMAIN result
                  /\ result[PropName(elements[k])] = StringValue(ValueText(elements[k]))
    /\ (pc = "returnedMetadata" /\ InOdf) =>
          \A k \in Processed :
              UdDateFailure(elements[k]) =>
                  /\ UdName(elements[k]) \in DOMAIN OdfMap
                  /\ OdfMap[UdName(elements[k])] = StringValue(TextContent(elements[k]))

(***************************************************************************)
(* C6, amended.  Such a property is never dropped: its name is in the map  *)
(* from the moment it is processed, and the value under it is the Text     *)
(* value of the raw text unless a later element of the same name stores a  *)
(* value in its place.                                                     *)
(***************************************************************************)
C6_DateFailureStoresText ==
    /\ InCustom =>
          \A k \in Processed :
              PropDateFailure(elements[k]) =>
                  /\ PropName(elements[k]) \in DOMAIN result
                  /\ ~PropLaterStores(k) =>
                        result[PropName(elements[k])] = StringValue(ValueText(elements[k]))
    /\ InOdf =>
          \A k \in Processed :
              UdDateFailure(elements[k]) =>
                  /\ UdName(elements[k]) \in DOMAIN OdfMap
                  /\ ~UdLaterStores(k) =>
                        OdfMap[UdName(elements[k])] = StringValue(TextContent(elements[k]))

C6_Witness ==
    /\ pc = "returnedMetadata"
    /\ "customProperties" \in DOMAIN metadata
    /\ \E k \in Processed :
          /\ UdDateFailure(elements[k])
          /\ UdType(elements[k]) = "date"
          /\ metadata.customProperties[UdName(elements[k])] = StringValue(TextContent(elements[k]))

(***************************************************************************)
(* C7, as stated.  A named property whose first element child is vt:bool   *)
(* is in the output map with the Boolean that tells whether the child's    *)
(* text is "true" ignoring case.                                           *)
(***************************************************************************)
C7_BoolAlwaysPresent ==
    pc = "returnedCustom" =>
        \A k \in Processed :
            (PropTyped(elements[k]) /\ ValueChild(elements[k]).tagName = VT_bool) =>
                /\ PropName(elements[k]) \in DOMAIN result
                /\ result[PropName(elements[k])]
                     = BooleanValue(IsTrueIgnoringCase(ValueText(elements[k])))

(***************************************************************************)
(* C7, amended.  Such a property is never dropped: its name is in the map  *)
(* from the moment it is processed, and the value under it is that         *)
(* Boolean unless a later property element of the same name stores a       *)
(* value in its place.                                                     *)
(***************************************************************************)
C7_BoolStored ==
    InCustom =>
        \A k \in Processed :
            (PropTyped(elements[k]) /\ ValueChild(elements[k]).tagName = VT_bool) =>
                /\ PropName(elements[k]) \in DOMAIN result
                /\ ~PropLaterStores(k) =>
                      result[PropName(elements[k])]
                        = BooleanValue(IsTrueIgnoringCase(ValueText(elements[k])))

C7_Witness ==
    /\ pc = "returnedCustom"
    /\ \E k \in Processed :
          /\ PropTyped(elements[k])
          /\ ValueChild(elements[k]).tagName = VT_bool
          /\ ValueText(elements[k]) = T_NUM
          /\ result[PropName(elements[k])] = BooleanValue(FALSE)
    /\ \E k \in Processed :
          /\ PropTyped(elements[k])
          /\ ValueChild(elements[k]).tagName = VT_bool
          /\ ValueText(elements[k]) = T_TRUE

(***************************************************************************)
(* C8, as stated.  Processing an element whose type conversion fails       *)
(* (a numeric or a timestamp conversion) leaves the map as it was.         *)
(***************************************************************************)
NextProp == elements[idx + 1]
PropStepOn(failure) == pc = "properties" /\ idx < Len(elements) /\ failure
UdStepOn(failure) == pc = "userDefined" /\ idx < Len(elements) /\ failure

C8_FailureLeavesMap ==
    [][ /\ PropStepOn(PropNumericFailure(NextProp) \/ PropDateFailure(NextProp))
            => result' = result
        /\ UdStepOn(UdNumericFailure(NextProp) \/ UdDateFailure(NextProp))
            => customProperties' = customProperties ]_vars

(***************************************************************************)
(* C8, amended.  Processing an element whose numeric conversion fails      *)
(* leaves the map as it was: no stored value is overwritten and no key is  *)
(* inserted.  Processing an element whose timestamp conversion fails       *)
(* stores the raw text under its key, inserting the key or overwriting     *)
(* the value stored there, and leaves every other key as it was.           *)
(***************************************************************************)
StoresText(before, after, name, text) ==
    /\ DOMAIN after = DOMAIN before \cup {name}
    /\ after[name] = StringValue(text)
    /\ \A other \in DOMAIN before : other # name => after[other] = before[other]

C8_NumericFailureLeavesMap ==
    [][ /\ PropStepOn(PropNumericFailure(NextProp)) => result' = result
        /\ PropStepOn(PropDateFailure(NextProp))
            => StoresText(result, result', PropName(NextProp), ValueText(NextProp))
        /\ UdStepOn(UdNumericFailure(NextProp)) => customProperties' = customProperties
        /\ UdStepOn(UdDateFailure(NextProp))
            => StoresText(customProperties, customProperties',
                          UdName(NextProp), TextContent(NextProp)) ]_vars

C8_Witness ==
    /\ InCustom
    /\ idx > 1
    /\ PropNumericFailure(elements[idx])
    /\ \E j \in 1..(idx - 1) :
          /\ SameProp(j, idx) /\ PropInserts(elements[j])
          /\ result[PropName(elements[idx])] = PropExpected(elements[j])

(***************************************************************************)
(* C9.  The returned record has customProperties exactly when a            *)
(* meta:user-defined element below the office:meta marker stored an entry  *)
(* on the ODF path; the attached map is never empty, and its keys are the  *)
(* names of the elements that stored: an element without a name or         *)
(* without text adds no key.                                               *)
(***************************************************************************)
C9_CustomPropertiesIffStored ==
    pc = "returnedMetadata" =>
        LET stored == IF ~HasCoreMarker(xml) /\ HasMetaMarker(xml)
                      THEN {ud \in Range(Tagged(FirstMetaMarker(xml), META_userDefined)) :
                               UdInserts(ud)}
                      ELSE {}
        IN  /\ "customProperties" \in DOMAIN metadata <=> stored # {}
            /\ "customProperties" \in DOMAIN metadata =>
                  /\ DOMAIN metadata.customProperties # {}
                  /\ DOMAIN metadata.customProperties = {UdName(ud) : ud \in stored}

C9_Witness ==
    /\ pc = "returnedMetadata"
    /\ Len(elements) > 1
    /\ \A k \in Processed : ~UdUsable(elements[k])
    /\ \E k \in Processed : ~UdNamed(elements[k])
    /\ \E k \in Processed : TextContent(elements[k]) = <<>>
    /\ "customProperties" \notin DOMAIN metadata

(***************************************************************************)
(* C10.  What a named property element contributes is decided by its       *)
(* first element child alone: with no other element of its name storing,   *)
(* the map holds the value of that child if it decodes, and lacks the      *)
(* name if that child is dropped or there is no element child, whatever    *)
(* text, comments and further elements the property holds.                 *)
(***************************************************************************)
C10_FirstElementChildDecides ==
    InCustom =>
        \A k \in Processed :
            (PropNamed(elements[k]) /\ ~PropOtherStores(k)) =>
                IF PropInserts(elements[k])
                THEN /\ PropName(elements[k]) \in DOMAIN result
                     /\ result[PropName(elements[k])] = PropExpected(elements[k])
                ELSE PropName(elements[k]) \notin DOMAIN result

C10_Witness ==
    /\ pc = "returnedCustom"
    /\ \E k \in Processed :
          LET p == elements[k] IN
          /\ PropNamed(p)
          /\ Len(p.childNodes) > 2
          /\ p.childNodes[1].nodeType # ELEMENT_NODE
          /\ p.childNodes[2].nodeType = ELEMENT_NODE
          /\ p.childNodes[3].nodeType = ELEMENT_NODE
          /\ ~PropInserts(p)
          /\ PropInserts([p EXCEPT !.childNodes = <<p.childNodes[3]>>])
          /\ PropName(p) \notin DOMAIN result

====
